---- MODULE Spec2Model ----
(***************************************************************************)
(* Fire Type Quest (src/app.py): a Streamlit script that is re-executed    *)
(* top to bottom on every page load and every form submission.  One action *)
(* of this module is one execution of the script.  The only state that     *)
(* survives between executions is st.session_state (the prediction         *)
(* history and the keys written by the reset button) and the two artifact  *)
(* files on disk.                                                          *)
(*                                                                         *)
(* Units: slider values are integers counting slider steps (step = 0.1),   *)
(* probabilities are integers in units of 1/ProbaOne.  Labels are written  *)
(* without their trailing emoji.                                           *)
(***************************************************************************)
EXTENDS Integers, Sequences, FiniteSets, TLC

VARIABLES
    files,        \* the two artifact files on disk
    historyInit,  \* "history" in st.session_state
    history,      \* st.session_state.history
    resetKeys,    \* the six keys written by the reset button exist
    sidebar,      \* the "Quest History" lines shown by the latest run
    pre,          \* the history as the latest run found it (after line 72)
    last,         \* what the latest run did and showed
    prev          \* outcome and `pre` of the run before the latest one

vars == <<files, historyInit, history, resetKeys, sidebar, pre, last, prev>>

None == <<>>
Some(x) == <<x>>

---------------------------------------------------------------------------
(* Program constants *)

MaxHistory == 10
StepsPerUnit == 10
BrightnessLow == 300
BrightnessHigh == 450
BrightT31Low == 290
BrightT31High == 400
FrpLow == 0
FrpHigh == 100
ProbaOne == 100000

(* Bound of the exploration: Submit is explored while the history holds   *)
(* fewer than MaxRecorded entries (specifications Spec and SpecValidate). *)
MaxRecorded == 2

---------------------------------------------------------------------------
(* Artifacts on disk, lines 9-15 *)

FileStates == {"ok", "missing", "corrupt"}

LoadOkModelOnly(f) == f.model = "ok"

\* both joblib.load calls return
LoadOk(f) == f.model = "ok" /\ f.scaler = "ok"

\* what the failed load shows: FileNotFoundError is caught (st.error,
\* st.stop); any other exception of joblib.load is not caught and ends
\* the script run. The model is loaded first.
LoadFailure(f) ==
    IF f.model = "missing" THEN "startup_error"
    ELSE IF f.model = "corrupt" THEN "crash"
    ELSE IF f.scaler = "missing" THEN "startup_error"
    ELSE "crash"

---------------------------------------------------------------------------
(* Session history, lines 70-72, 98-101, 196-199 *)

\* if "history" not in st.session_state: st.session_state.history = []
InitHistory(has, h) == IF has THEN h ELSE <<>>

\* f"{x:.2%}": x rounded to a whole number of hundredths of a percent
FormatPercent(p) ==
    LET unit == ProbaOne \div 10000
        q == p \div unit
        r == p % unit
    IN IF 2 * r > unit \/ (2 * r = unit /\ q % 2 = 1) THEN q + 1 ELSE q

\* the sidebar: one line per entry, numbered from 1
Render(h) ==
    [i \in 1..Len(h) |-> <<i, h[i].result, FormatPercent(h[i].confidence)>>]

RecordLate(h, e) ==
    LET a == Append(h, e)
    IN IF Len(a) > MaxHistory + 1 THEN Tail(a) ELSE a

RecordDropNewest(h, e) ==
    LET a == Append(h, e)
    IN IF Len(a) > MaxHistory THEN SubSeq(a, 1, Len(a) - 1) ELSE a

\* history.append(entry); if len(history) > 10: history.pop(0)
Record(h, e) ==
    LET a == Append(h, e)
    IN IF Len(a) > MaxHistory THEN Tail(a) ELSE a

---------------------------------------------------------------------------
(* Input validation and feature assembly, lines 147-164 *)

ConfidenceLevels == {"low", "nominal", "high"}

confidence_map == [c \in ConfidenceLevels |->
    IF c = "low" THEN 0 ELSE IF c = "nominal" THEN 1 ELSE 2]

WarnBrightness == "Brightness outside 300-450 K!"
WarnBrightT31 == "Brightness T31 outside 290-400 K!"
WarnFrp == "FRP outside 0-100 MW!"

ValidateClosed(form) ==
    (IF form.brightness <= BrightnessLow * StepsPerUnit
        \/ form.brightness >= BrightnessHigh * StepsPerUnit
     THEN <<WarnBrightness>> ELSE <<>>)
    \o (IF form.bright_t31 <= BrightT31Low * StepsPerUnit
           \/ form.bright_t31 >= BrightT31High * StepsPerUnit
        THEN <<WarnBrightT31>> ELSE <<>>)
    \o (IF form.frp <= FrpLow * StepsPerUnit
           \/ form.frp >= FrpHigh * StepsPerUnit
        THEN <<WarnFrp>> ELSE <<>>)

\* the list `warnings` after the three range checks
Validate(form) ==
    (IF form.brightness < BrightnessLow * StepsPerUnit
        \/ form.brightness > BrightnessHigh * StepsPerUnit
     THEN <<WarnBrightness>> ELSE <<>>)
    \o (IF form.bright_t31 < BrightT31Low * StepsPerUnit
           \/ form.bright_t31 > BrightT31High * StepsPerUnit
        THEN <<WarnBrightT31>> ELSE <<>>)
    \o (IF form.frp < FrpLow * StepsPerUnit
           \/ form.frp > FrpHigh * StepsPerUnit
        THEN <<WarnFrp>> ELSE <<>>)

Clamp(x, lo, hi) == IF x < lo THEN lo ELSE IF x > hi THEN hi ELSE x

InputArrayClamped(form) ==
    << Clamp(form.brightness, BrightnessLow * StepsPerUnit,
             BrightnessHigh * StepsPerUnit),
       form.bright_t31, form.frp, form.scan, form.track,
       confidence_map[form.confidence] >>

\* np.array([[brightness, bright_t31, frp, scan, track, confidence_val]])
InputArray(form) ==
    << form.brightness, form.bright_t31, form.frp, form.scan, form.track,
       confidence_map[form.confidence] >>

---------------------------------------------------------------------------
(* Scaling and prediction, lines 165-199 and 251-252.  A behaviour b is    *)
(* what the loaded scaler and classifier do on one request:                *)
(*   b.scale   "ok" | "raise"          scaler.transform                    *)
(*   b.predict "ok" | "raise"          model.predict                       *)
(*   b.code    the class code predict returns                              *)
(*   b.proba   "ok" | "AttributeError" | "raise"   model.predict_proba     *)
(*   b.row     the probability row predict_proba returns                   *)
(*   b.msg     str(e) of the exception raised, if one is                   *)
(***************************************************************************)

ScalingHaltsNever(b) == FALSE

\* except Exception: st.error(...); st.stop()  -- the run ends at line 169
ScalingHalts(b) == b.scale = "raise"

ScalingErrorTextBare(msg) == <<"Error scaling input data">>

\* f"Error scaling input data: {str(e)}"
ScalingErrorText(msg) == <<"Error scaling input data: ", msg>>

\* f"Error during prediction: {str(e)}"
PredictionErrorText(msg) == <<"Error during prediction: ", msg>>

\* an exception leaves the try block of lines 172-249 for the handler of
\* line 251; an AttributeError of predict_proba is handled inside.  The
\* calls that can raise are those on the loaded model; the statements that
\* follow the append (constant markdown, random.choice of non-empty lists,
\* arithmetic on the slider values, the chart inside its own try) do not.
PredictRaises(b) == b.predict = "raise" \/ (b.predict = "ok" /\ b.proba = "raise")

ReachesAppendEarly(b) == b.predict = "ok"

\* control reaches line 197
ReachesAppend(b) == b.predict = "ok" /\ b.proba # "raise"

RECURSIVE SeqMax(_)
SeqMax(s) ==
    IF Len(s) = 1 THEN s[1]
    ELSE LET m == SeqMax(Tail(s)) IN IF s[1] >= m THEN s[1] ELSE m

\* max_proba: max(prediction_proba), or None after AttributeError
MaxProba(b) == IF b.proba = "ok" THEN Some(SeqMax(b.row)) ELSE None

\* Python truth value of max_proba
Truthy(mp) == mp # None /\ mp[1] # 0

StoredConfidenceAlwaysOne(mp) == ProbaOne

\* max_proba if max_proba else 1.0
StoredConfidence(mp) == IF Truthy(mp) THEN mp[1] ELSE ProbaOne

UnknownLabel == "Unknown Fire Type"

fire_types_shifted == [k \in {0, 1, 2} |->
    IF k = 0 THEN "Vegetation Fire"
    ELSE IF k = 1 THEN "Static Land Source" ELSE "Offshore Fire"]

fire_types == [k \in {0, 2, 3} |->
    IF k = 0 THEN "Vegetation Fire"
    ELSE IF k = 2 THEN "Static Land Source" ELSE "Offshore Fire"]

\* dict.get(key, default)
Get(d, k, default) == IF k \in DOMAIN d THEN d[k] ELSE default

\* the model-store calls made by the run, in order, with how each ended
Trace(b) ==
    <<  <<"transform", b.scale>>  >>
    \o (IF ScalingHalts(b) THEN <<>>
        ELSE <<  <<"predict", b.predict>>  >>
             \o (IF b.predict = "ok"
                 THEN <<  <<"predict_proba", b.proba>>  >> ELSE <<>>))

---------------------------------------------------------------------------
(* What one run leaves on the page *)

NoRequest(outcome) ==
    [outcome |-> outcome, form |-> None, warnings |-> <<>>,
     input_array |-> None, trace |-> <<>>, cause |-> None, error |-> <<>>,
     prediction |-> None, proba |-> None, entry |-> None]

Init ==
    /\ files \in [model : FileStates, scaler : FileStates]
    /\ historyInit = FALSE
    /\ history = <<>>
    /\ resetKeys = FALSE
    /\ sidebar = <<>>
    /\ pre = <<>>
    /\ last = NoRequest("none")
    /\ prev = [outcome |-> "none", pre |-> <<>>]

\* lines 10-15: an artifact cannot be loaded; the run ends before line 17
StartupHalt ==
    /\ ~LoadOk(files)
    /\ last' = NoRequest(LoadFailure(files))
    /\ prev' = [outcome |-> last.outcome, pre |-> pre]
    /\ UNCHANGED <<files, historyInit, history, resetKeys, sidebar, pre>>

\* a run with neither button pressed
View ==
    /\ LoadOk(files)
    /\ LET h0 == InitHistory(historyInit, history)
       IN /\ historyInit' = TRUE
          /\ history' = h0
          /\ sidebar' = Render(h0)
          /\ pre' = h0
    /\ last' = NoRequest("none")
    /\ prev' = [outcome |-> last.outcome, pre |-> pre]
    /\ UNCHANGED <<files, resetKeys>>

\* lines 129-136: the reset button writes six session keys and reruns the
\* script; the rerun is a run with neither button pressed
Reset ==
    /\ LoadOk(files)
    /\ LET h0 == InitHistory(historyInit, history)
       IN /\ historyInit' = TRUE
          /\ history' = h0
          /\ sidebar' = Render(h0)
          /\ pre' = h0
    /\ resetKeys' = TRUE
    /\ last' = NoRequest("none")
    /\ prev' = [outcome |-> last.outcome, pre |-> pre]
    /\ UNCHANGED files

\* lines 147-252: the "Predict Fire Type" button was pressed with the form
\* holding `form`, and the artifacts behave as b
Submit(form, b) ==
    /\ LoadOk(files)
    /\ LET h0 == InitHistory(historyInit, history)
           max_proba == MaxProba(b)
           result == Get(fire_types, b.code, UnknownLabel)
           entry == [result |-> result,
                     confidence |-> StoredConfidence(max_proba)]
           appended == ~ScalingHalts(b) /\ ReachesAppend(b)
           predicted == ~ScalingHalts(b) /\ b.predict = "ok"
           outcome == IF b.scale = "raise" THEN "scaling_error"
                      ELSE IF PredictRaises(b) THEN "prediction_error"
                      ELSE "recorded"
       IN /\ historyInit' = TRUE
          /\ sidebar' = Render(h0)
          /\ pre' = h0
          /\ history' = IF appended THEN Record(h0, entry) ELSE h0
          /\ last' = [outcome |-> outcome,
                      form |-> Some(form),
                      warnings |-> Validate(form),
                      input_array |-> Some(InputArray(form)),
                      trace |-> Trace(b),
                      cause |-> IF outcome = "recorded" THEN None
                                ELSE Some(b.msg),
                      error |-> IF outcome = "scaling_error"
                                THEN ScalingErrorText(b.msg)
                                ELSE IF outcome = "prediction_error"
                                THEN PredictionErrorText(b.msg)
                                ELSE <<>>,
                      prediction |-> IF predicted THEN Some(b.code) ELSE None,
                      proba |-> IF predicted /\ b.proba = "ok"
                                THEN Some(b.row) ELSE None,
                      entry |-> IF appended THEN Some(entry) ELSE None]
    /\ prev' = [outcome |-> last.outcome, pre |-> pre]
    /\ UNCHANGED <<files, resetKeys>>

---------------------------------------------------------------------------
(* Inputs explored *)

Form(br, t31, f, sc, tr, c) ==
    [brightness |-> br, bright_t31 |-> t31, frp |-> f,
     scan |-> sc, track |-> tr, confidence |-> c]

\* slider values around every threshold (in slider steps)
WideForms ==
    { Form(br, t31, f, st[1], st[2], c) :
        br \in {2999, 3000, 4500, 4501, 5000},
        t31 \in {2899, 2900, 4000, 4001},
        f \in {0, 1000, 1001},
        st \in {<<10, 10>>, <<0, 100>>},
        c \in ConfidenceLevels }

\* one in-range form and one with brightness = 500
FewForms ==
    { Form(3200, 3000, 200, 10, 10, "nominal"),
      Form(5000, 3000, 200, 10, 10, "low") }

Codes == {-1, 0, 1, 2, 3, 4}

\* probability rows: non-negative, summing to ProbaOne
Rows == { <<25000, 25000, 25000, 25000>>,
          <<33333, 33334, 33333, 0>>,
          <<0, 0, 0, 100000>> }

Msgs == {"X has 5 features, but StandardScaler is expecting 6", "boom"}

Behaviour(s, p, c, pp, r, m) ==
    [scale |-> s, predict |-> p, code |-> c, proba |-> pp, row |-> r,
     msg |-> m]

NoRow == <<0, 0, 0, 100000>>

ScalingFailures ==
    { Behaviour("raise", "ok", 0, "AttributeError", NoRow, m) : m \in Msgs }

PredictFailures ==
    { Behaviour("ok", "raise", 0, "AttributeError", NoRow, m) : m \in Msgs }

ProbaFailures ==
    { Behaviour("ok", "ok", c, "raise", NoRow, "boom") : c \in Codes }

WithoutProba ==
    { Behaviour("ok", "ok", c, "AttributeError", NoRow, "boom") : c \in Codes }

WithProba ==
    { Behaviour("ok", "ok", c, "ok", r, "boom") : c \in Codes, r \in Rows }

AllBehaviours ==
    ScalingFailures \cup PredictFailures \cup ProbaFailures
        \cup WithoutProba \cup WithProba

\* one success and one failure
TwoBehaviours ==
    { Behaviour("ok", "ok", 0, "AttributeError", NoRow, "boom"),
      Behaviour("raise", "ok", 0, "AttributeError", NoRow, "boom") }

FewBehaviours ==
    { Behaviour("ok", "ok", 0, "AttributeError", NoRow, "boom"),
      Behaviour("ok", "ok", 1, "AttributeError", NoRow, "boom"),
      Behaviour("raise", "ok", 0, "AttributeError", NoRow, "boom"),
      Behaviour("ok", "raise", 0, "AttributeError", NoRow, "boom"),
      Behaviour("ok", "ok", 0, "raise", NoRow, "boom") }

---------------------------------------------------------------------------
(* Specifications *)

\* every behaviour of the artifacts, two forms, short sessions
Request ==
    /\ Len(history) < MaxRecorded
    /\ \E form \in FewForms, b \in AllBehaviours : Submit(form, b)

Next == StartupHalt \/ View \/ Reset \/ Request

Spec == Init /\ [][Next]_vars

\* every form around the thresholds, two behaviours, short sessions
RequestWide ==
    /\ Len(history) < MaxRecorded
    /\ \E form \in WideForms, b \in TwoBehaviours : Submit(form, b)

NextValidate == StartupHalt \/ View \/ Reset \/ RequestWide

SpecValidate == Init /\ [][NextValidate]_vars

\* sessions of any length, few forms and behaviours
RequestLong ==
    \E form \in FewForms, b \in FewBehaviours : Submit(form, b)

NextFifo == StartupHalt \/ View \/ Reset \/ RequestLong

SpecFifo == Init /\ [][NextFifo]_vars

---------------------------------------------------------------------------
(* Properties *)

Submitted(l) == l.form # None

Failed(o) == o \in {"scaling_error", "prediction_error"}

\* transform and predict return, and predict_proba returns or is missing
Succeeds(l) ==
    /\ Len(l.trace) = 3
    /\ l.trace[1] = <<"transform", "ok">>
    /\ l.trace[2] = <<"predict", "ok">>
    /\ l.trace[3][1] = "predict_proba"
    /\ l.trace[3][2] # "raise"

Min(a, b) == IF a <= b THEN a ELSE b

\* h followed by e, cut to its last 10 entries
LastTen(h, e) ==
    LET a == h \o <<e>>
    IN SubSeq(a, Len(a) - Min(Len(a), 10) + 1, Len(a))

FourLabels ==
    {"Vegetation Fire", "Static Land Source", "Offshore Fire",
     "Unknown Fire Type"}

\* C1: the history holds at most 10 entries at the end of every run, and
\* the sidebar never shows more than 10 lines.
C1_HistoryBounded == Len(history) <= 10 /\ Len(sidebar) <= 10 /\ Len(pre) <= 10

C1_Witness ==
    /\ last.outcome = "recorded"
    /\ Len(pre) = 10
    /\ Len(history) = 10
    /\ Len(sidebar) = 10

\* C2: a run that records appends its entry at the end, keeps the earlier
\* entries in their order and drops only the first one when there were
\* already 10; a run that does not record leaves the history as it was.
C2_FifoOrder ==
    [][ IF last'.outcome = "recorded"
        THEN LET n == Len(history)
                 m == Len(history')
                 shift == n + 1 - m
             IN /\ m = Min(n + 1, 10)
                /\ history'[m] = last'.entry[1]
                /\ shift \in {0, 1}
                /\ \A i \in 1..(m - 1) : history'[i] = history[i + shift]
        ELSE history' = history ]_vars

C2_Witness ==
    /\ last.outcome = "recorded"
    /\ Len(pre) = 10
    /\ pre[1] # pre[2]
    /\ history = Tail(pre) \o <<last.entry[1]>>
    /\ \E i, j \in 1..10 : i # j /\ history[i] = history[j]

TransformRaised(l) == Len(l.trace) >= 1 /\ l.trace[1] = <<"transform", "raise">>

\* C3: when transform raises, the run ends with the scaling error whose
\* text contains the message of the exception, predict is not called, and
\* the history is what the run found.
C3_ScalingFailure ==
    TransformRaised(last) =>
        /\ last.outcome = "scaling_error"
        /\ last.error[1] = "Error scaling input data: "
        /\ \E i \in 1..Len(last.error) : last.error[i] = last.cause[1]
        /\ \A i \in 1..Len(last.trace) :
              last.trace[i][1] \notin {"predict", "predict_proba"}
        /\ last.entry = None
        /\ history = pre

C3_Witness ==
    /\ TransformRaised(last)
    /\ Len(pre) >= 1
    /\ last.cause = Some("X has 5 features, but StandardScaler is expecting 6")

\* C4: a run that reports "Error during prediction" leaves the history
\* unchanged, and the history changes only in a run that completes
\* inference.
C4_NoPartialState ==
    [][ /\ last'.outcome = "prediction_error" =>
              history' = history /\ last'.entry = None
        /\ history' # history =>
              last'.outcome = "recorded" /\ Succeeds(last') ]_vars

C4_Witness ==
    /\ last.outcome = "prediction_error"
    /\ Len(last.trace) = 3
    /\ last.trace[3] = <<"predict_proba", "raise">>
    /\ Len(history) >= 1
    /\ history = pre

\* C5: a request that follows a failed one, and for which transform and
\* predict succeed, is validated, scaled, predicted and recorded onto the
\* history as it was before the failed request.
C5_FailureIsLocal ==
    (Failed(prev.outcome) /\ Submitted(last) /\ Succeeds(last)) =>
        /\ last.outcome = "recorded"
        /\ last.input_array # None
        /\ last.prediction # None
        /\ last.entry # None
        /\ history = LastTen(prev.pre, last.entry[1])

C5_Witness ==
    /\ Failed(prev.outcome)
    /\ last.outcome = "recorded"
    /\ Len(prev.pre) >= 1
    /\ Len(history) = Len(prev.pre) + 1

Count(w, x) == Cardinality({i \in 1..Len(w) : w[i] = x})

Outside(x, lo, hi) == x \notin (lo * 10)..(hi * 10)

\* C6: the warnings of a request are one brightness warning iff
\* brightness is outside [300, 450], one bright_t31 warning iff bright_t31
\* is outside [290, 400], one frp warning iff frp is outside [0, 100],
\* and nothing else.
C6_Warnings ==
    Submitted(last) =>
        LET f == last.form[1]
            w == last.warnings
            nb == IF Outside(f.brightness, 300, 450) THEN 1 ELSE 0
            nt == IF Outside(f.bright_t31, 290, 400) THEN 1 ELSE 0
            nf == IF Outside(f.frp, 0, 100) THEN 1 ELSE 0
        IN /\ Count(w, WarnBrightness) = nb
           /\ Count(w, WarnBrightT31) = nt
           /\ Count(w, WarnFrp) = nf
           /\ Len(w) = nb + nt + nf

C6_Witness ==
    /\ Submitted(last)
    /\ last.form[1].brightness = 4500
    /\ last.form[1].bright_t31 = 2900
    /\ last.form[1].frp = 1001
    /\ last.form[1].scan = 0
    /\ last.form[1].track = 100
    /\ last.warnings = <<WarnFrp>>

\* C7: a request with warnings is scaled with the values of the form as
\* they are, and is recorded whenever transform and predict succeed.
C7_WarningsDoNotBlock ==
    Submitted(last) =>
        LET f == last.form[1]
            code == IF f.confidence = "low" THEN 0
                    ELSE IF f.confidence = "nominal" THEN 1 ELSE 2
        IN /\ last.input_array =
                 Some(<<f.brightness, f.bright_t31, f.frp, f.scan, f.track,
                        code>>)
           /\ Len(last.trace) >= 1 /\ last.trace[1][1] = "transform"
           /\ Succeeds(last) =>
                 /\ last.outcome = "recorded"
                 /\ last.entry # None
                 /\ history = LastTen(pre, last.entry[1])

C7_Witness ==
    /\ Submitted(last)
    /\ last.form[1].brightness = 5000
    /\ last.warnings = <<WarnBrightness>>
    /\ last.outcome = "recorded"
    /\ history = pre \o <<last.entry[1]>>

\* C8: with an artifact missing no run gets past loading: nothing is
\* scaled or predicted and no history is created.
C8_MissingArtifact ==
    (files.model = "missing" \/ files.scaler = "missing") =>
        /\ ~historyInit
        /\ history = <<>>
        /\ sidebar = <<>>
        /\ ~Submitted(last)
        /\ last.trace = <<>>
        /\ last.entry = None
        /\ last.outcome \in {"none", "startup_error", "crash"}

C8_Witness ==
    /\ files.model = "ok"
    /\ files.scaler = "missing"
    /\ last.outcome = "startup_error"

\* C9: the label of a recorded request is Vegetation Fire for code 0,
\* Static Land Source for 2, Offshore Fire for 3 and Unknown Fire Type for
\* every other code; every label in the history is one of the four.
C9_LabelMapping ==
    /\ last.outcome = "recorded" =>
          LET c == last.prediction[1]
          IN last.entry[1].result =
                CASE c = 0 -> "Vegetation Fire"
                  [] c = 2 -> "Static Land Source"
                  [] c = 3 -> "Offshore Fire"
                  [] OTHER -> "Unknown Fire Type"
    /\ \A i \in 1..Len(history) : history[i].result \in FourLabels

C9_Witness ==
    /\ last.outcome = "recorded"
    /\ last.prediction = Some(1)
    /\ last.entry[1].result = "Unknown Fire Type"
    /\ \E i \in 1..Len(pre) : pre[i].result = "Static Land Source"

IsTop(x, row) ==
    /\ \E i \in 1..Len(row) : row[i] = x
    /\ \A i \in 1..Len(row) : row[i] <= x

====
